---------------------------- MODULE Spec2Model ----------------------------
(***************************************************************************)
(* Model of k3pi_utilities' Python layer:                                  *)
(*   python/src/py_k3pi_utilities/utils.py  (the utilities module)         *)
(*   python/src/ConvertPhsp.py              (the conversion script)        *)
(*                                                                         *)
(* Two specifications are given.  Spec lets an unseen analysis script call *)
(* the utilities in any order; SpecScript is one run of ConvertPhsp.main.  *)
(*                                                                         *)
(* Numbers handed to ampGentoTLorentzVector are Python floats, i.e. IEEE   *)
(* 754 binary64 values.  They are modelled at full width: a sign, the      *)
(* exponent of the leading bit and the 53 significand bits, with products  *)
(* and quotients rounded to nearest, ties to even.  Overflow, underflow,   *)
(* infinities and NaN are outside the model (the exponent is unbounded).   *)
(***************************************************************************)
EXTENDS Integers, Sequences, FiniteSets, TLC

VARIABLES
    disk,     \* which of the header / shared library exist on the machine
    rt,       \* process-global framework state: header included, library loaded
    events,   \* framework calls made since the current entry point began
    call,     \* the utilities call made last (Spec)
    ret,      \* what that call returned, or Raised
    out,      \* lines printed since the current entry point began
    pc,       \* position of ConvertPhsp.main (SpecScript)
    env       \* local variables of ConvertPhsp.main (SpecScript)

vars == <<disk, rt, events, call, ret, out, pc, env>>

(***************************************************************************)
(* Bounds of the model.                                                    *)
(***************************************************************************)
MaxNameLen == 2      \* longest column name given to trimSpaceColNames
MaxCols == 2         \* most columns of a data frame given to trimSpaceColNames
AngleSteps == 4      \* angles are multiples of pi / AngleSteps

(***************************************************************************)
(* IEEE 754 binary64.  A nonzero double is written as float.hex writes it, *)
(* [-]0x1.<13 hex digits>p<exp>: sign, the 13 digits, exp.  Zero has no    *)
(* digits.                                                                 *)
(***************************************************************************)
Precision == 53

FZero == [sign |-> 0, hex |-> <<>>, exp |-> 0]

Dbl(sign, hex, exp) == [sign |-> sign, hex |-> hex, exp |-> exp]

Pow2(k) == CASE k = 0 -> 1 [] k = 1 -> 2 [] k = 2 -> 4 [] k = 3 -> 8

\* The bits of a sequence of hex digits, most significant first.
DigitsToBits(ds) ==
    [i \in 1..(4 * Len(ds)) |-> (ds[((i - 1) \div 4) + 1] \div Pow2(3 - ((i - 1) % 4))) % 2]

\* The hex digits of 4n bits.
BitsToDigits(bits) ==
    [j \in 1..(Len(bits) \div 4) |->
        8 * bits[4 * j - 3] + 4 * bits[4 * j - 2] + 2 * bits[4 * j - 1] + bits[4 * j]]

Front(s) == SubSeq(s, 1, Len(s) - 1)
Last(s) == s[Len(s)]

RECURSIVE NatToDigits(_)
NatToDigits(n) == IF n = 0 THEN <<>> ELSE Append(NatToDigits(n \div 16), n % 16)

\* ds * c + carry in base 16, c a small natural.
RECURSIVE MulSmall(_, _, _)
MulSmall(ds, c, carry) ==
    IF ds = <<>> THEN NatToDigits(carry)
    ELSE LET t == Last(ds) * c + carry
         IN  Append(MulSmall(Front(ds), c, t \div 16), t % 16)

\* bits without its leading zeros (bits holds a 1).
StripZeros(bits) ==
    LET first == CHOOSE i \in 1..Len(bits) :
                     bits[i] = 1 /\ \A j \in 1..(i - 1) : bits[j] = 0
    IN  SubSeq(bits, first, Len(bits))

\* bits + 1; one bit longer when every bit was 1.
IncBits(bits) ==
    IF \A i \in 1..Len(bits) : bits[i] = 1
    THEN <<1>> \o [i \in 1..Len(bits) |-> 0]
    ELSE LET z == CHOOSE i \in 1..Len(bits) :
                      bits[i] = 0 /\ \A j \in (i + 1)..Len(bits) : bits[j] = 1
         IN  [i \in 1..Len(bits) |-> IF i < z THEN bits[i] ELSE IF i = z THEN 1 ELSE 0]

\* The double nearest to  N * 2^e2,  N > 0 the integer whose bits are given
\* (leading zeros allowed); ties go to the even significand.
RoundNearestEven(sign, allbits, e2) ==
    LET bits == StripZeros(allbits)
        lead == e2 + Len(bits) - 1
        keep == IF Len(bits) >= Precision THEN SubSeq(bits, 1, Precision)
                ELSE bits \o [i \in 1..(Precision - Len(bits)) |-> 0]
        guard == IF Len(bits) > Precision THEN bits[Precision + 1] ELSE 0
        sticky == \E i \in (Precision + 2)..Len(bits) : bits[i] = 1
        up == guard = 1 /\ (sticky \/ keep[Precision] = 1)
        inc == IncBits(keep)
        man == IF ~up THEN keep
               ELSE IF Len(inc) > Precision THEN Front(inc) ELSE inc
        exp == IF up /\ Len(inc) > Precision THEN lead + 1 ELSE lead
    IN  Dbl(sign, BitsToDigits(Tail(man)), exp)

\* The 53-bit significand of a nonzero double as 14 hex digits.
Significand(x) == <<1>> \o x.hex

\* Python's  x * c  for a float x and the double c = 1.0, 2.0, 3.0, ...
FMul(x, c) ==
    IF x.hex = <<>> THEN FZero
    ELSE RoundNearestEven(x.sign, DigitsToBits(MulSmall(Significand(x), c, 0)),
                          x.exp - (Precision - 1))

(***************************************************************************)
(* utils.py: naming helpers.                                               *)
(***************************************************************************)
getAmpGenKName(IS_D0, IS_RS) ==
    IF IS_D0
    THEN IF IS_RS THEN "K#" ELSE "K~"
    ELSE IF IS_RS THEN "K~" ELSE "K#"

getAmpGenOSPiName(IS_D0, IS_RS) ==
    IF IS_D0
    THEN IF IS_RS THEN "pi~" ELSE "pi#"
    ELSE IF IS_RS THEN "pi#" ELSE "pi~"

getAmpGenSSPiName_IgnoresD0(IS_D0, IS_RS) ==
    IF IS_RS THEN "pi#" ELSE "pi~"

getAmpGenSSPiName(IS_D0, IS_RS) ==
    IF IS_D0
    THEN IF IS_RS THEN "pi#" ELSE "pi~"
    ELSE IF IS_RS THEN "pi~" ELSE "pi#"

(***************************************************************************)
(* utils.py: loading the native library.  The interpreter and the dynamic  *)
(* loader report a missing file without raising; the namespace             *)
(* ROOT.K3PiStudies can be used once the header has been included and the  *)
(* library loaded.                                                         *)
(***************************************************************************)
UTILS_BUILD_DIR == "/data/home/pappenheimer/develop_k3pistudies/build/extern/k3pi_utilities/"
UTILS_INC_DIR == "/data/home/pappenheimer/develop_k3pistudies/K3PiStudies/extern/k3pi_utilities/include/"

HeaderPath(incDir) == <<incDir, "/K3PiStudiesUtils.h">>
LibPath(buildDir) == <<buildDir, "/src/libK3PiStudiesUtils.so">>

\* The files the two hard-coded directories may hold.
NativeFiles == {HeaderPath(UTILS_INC_DIR), LibPath(UTILS_BUILD_DIR)}

RtInit == [included |-> FALSE, loaded |-> FALSE]

\* A world is the framework's process state with the calls made on it so far.
ProcessLine(w, include) ==
    [rt |-> [w.rt EXCEPT !.included = @ \/ include \in disk],
     events |-> Append(w.events, [op |-> "ProcessLine", arg |-> include])]

Load(w, lib) ==
    [rt |-> [w.rt EXCEPT !.loaded = @ \/ lib \in disk],
     events |-> Append(w.events, [op |-> "Load", arg |-> lib])]

loadK3PiCUtils_LibFirst(w, buildDir, incDir) ==
    LET include == HeaderPath(incDir)
        lib == LibPath(buildDir)
    IN  ProcessLine(Load(w, lib), include)

loadK3PiCUtils(w, buildDir, incDir) ==
    LET include == HeaderPath(incDir)
        lib == LibPath(buildDir)
    IN  Load(ProcessLine(w, include), lib)

NativeUsable(r) == r.included /\ r.loaded

Native(fn) == [op |-> "native", arg |-> fn]

(***************************************************************************)
(* The native library K3PiStudiesUtils, as the specification describes it. *)
(***************************************************************************)
GEV_TO_MEV == 1000

toTLorentzVector(e, px, py, pz) == [E |-> e, Px |-> px, Py |-> py, Pz |-> pz]

\* ROOT's TLorentzVector: a + b adds component by component, so a + b and
\* b + a are the same vector; M() is a function of the vector.  Both are left
\* uninterpreted.
VecSum(a, b) == [sum |-> {a, b}]
M(v) == [mass |-> v]
PerThousand(x) == [num |-> x, den |-> 1000]

\* Angles are counted in steps of pi / AngleSteps.
Angles_0_to_2pi == 0..(2 * AngleSteps - 1)

\* calc_phsp(parent, p1, p2, p3, p4): the masses of p1 + p2 and of p3 + p4, the
\* two helicity cosines (uninterpreted) and an angle in [0, 2 pi), which the
\* model leaves open.
calc_phsp(d0, p1, p2, p3, p4) ==
    {<<M(VecSum(p1, p2)), M(VecSum(p3, p4)),
       [cos |-> <<p1, p2>>, in |-> d0], [cos |-> <<p3, p4>>, in |-> d0], phi>> :
        phi \in Angles_0_to_2pi}

\* The angle congruent to theta modulo 2 pi in (-pi, pi].
changeAngleRange_neg_pi_to_pi(theta) ==
    LET r == theta % (2 * AngleSteps)
    IN  IF r > AngleSteps THEN r - 2 * AngleSteps ELSE r

(***************************************************************************)
(* utils.py: ampGentoTLorentzVector.  Python indexes from 0, TLA+ from 1.  *)
(***************************************************************************)
ampGentoTLorentzVector_NoReorder(ampGen4Vec_GeV) ==
    toTLorentzVector(FMul(ampGen4Vec_GeV[1], GEV_TO_MEV),
                     FMul(ampGen4Vec_GeV[2], GEV_TO_MEV),
                     FMul(ampGen4Vec_GeV[3], GEV_TO_MEV),
                     FMul(ampGen4Vec_GeV[4], GEV_TO_MEV))

ampGentoTLorentzVector_SwapPxPy(ampGen4Vec_GeV) ==
    toTLorentzVector(FMul(ampGen4Vec_GeV[4], GEV_TO_MEV),
                     FMul(ampGen4Vec_GeV[2], GEV_TO_MEV),
                     FMul(ampGen4Vec_GeV[1], GEV_TO_MEV),
                     FMul(ampGen4Vec_GeV[3], GEV_TO_MEV))

ampGentoTLorentzVector(ampGen4Vec_GeV) ==
    toTLorentzVector(FMul(ampGen4Vec_GeV[4], GEV_TO_MEV),   \* pE
                     FMul(ampGen4Vec_GeV[1], GEV_TO_MEV),   \* px
                     FMul(ampGen4Vec_GeV[2], GEV_TO_MEV),   \* py
                     FMul(ampGen4Vec_GeV[3], GEV_TO_MEV))   \* pz

(***************************************************************************)
(* utils.py: loadHistFromFile.  A histogram read from a file belongs to    *)
(* that file's directory until SetDirectory moves it; closing a file       *)
(* deletes what its directory still owns.                                  *)
(***************************************************************************)
Raised == [kind |-> "raised"]
None == [kind |-> "none"]
NoDir == "0"

\* The ROOT files of the machine and the histograms each holds.
RootFiles == [f \in {"hists.root", "empty.root"} |->
                 IF f = "hists.root" THEN {"hA", "hB"} ELSE {}]
FileArgs == {"hists.root", "empty.root", "missing.root"}
HistArgs == {"hA", "hB", "hC"}

FoundMsg(histName) == <<"Found histogram named {} in file", histName>>
NotFoundMsg(histName) == <<"Did not find histogram named {} in file", histName>>

\* The statements of loadHistFromFile act on its frame: the file f (its name,
\* or "null" for a null pointer), the object h, what has been printed and the
\* framework calls made.
TFileOpen(file) ==
    [f |-> IF file \in DOMAIN RootFiles THEN file ELSE "null",
     h |-> None,
     out |-> <<>>,
     events |-> <<[op |-> "Open", arg |-> file]>>]

TFileGet(fr, histName) ==
    [fr EXCEPT !.h = IF histName \in RootFiles[fr.f]
                     THEN [kind |-> "hist", name |-> histName,
                           dir |-> fr.f, deleted |-> FALSE]
                     ELSE None,
               !.events = Append(@, [op |-> "Get", arg |-> histName])]

PrintLine(fr, line) == [fr EXCEPT !.out = Append(@, line)]

SetDirectory(fr, dir) ==
    [fr EXCEPT !.h = [@ EXCEPT !.dir = dir],
               !.events = Append(@, [op |-> "SetDirectory", arg |-> dir])]

TFileClose(fr) ==
    [fr EXCEPT !.h = IF fr.h # None /\ fr.h.dir = fr.f
                     THEN [@ EXCEPT !.deleted = TRUE] ELSE @,
               !.events = Append(@, [op |-> "Close", arg |-> fr.f])]

Returned(fr) == [ret |-> fr.h, out |-> fr.out, events |-> fr.events]

loadHistFromFile_CloseFirst(file, histName) ==
    LET f == TFileOpen(file)
    IN  IF f.f = "null"
        THEN [ret |-> Raised, out |-> f.out, events |-> f.events]
        ELSE LET h == TFileGet(f, histName)
                 closed == TFileClose(h)
             IN  Returned(IF h.h # None
                          THEN SetDirectory(PrintLine(closed, FoundMsg(histName)), NoDir)
                          ELSE PrintLine(closed, NotFoundMsg(histName)))

loadHistFromFile_SwappedMsg(file, histName) ==
    LET f == TFileOpen(file)
    IN  IF f.f = "null"
        THEN [ret |-> Raised, out |-> f.out, events |-> f.events]
        ELSE LET h == TFileGet(f, histName)
                 branch == IF h.h # None
                           THEN SetDirectory(PrintLine(h, NotFoundMsg(histName)), NoDir)
                           ELSE PrintLine(h, FoundMsg(histName))
             IN  Returned(TFileClose(branch))

loadHistFromFile(file, histName) ==
    LET f == TFileOpen(file)
    IN  IF f.f = "null"
        THEN \* f.Get on the null pointer raises; nothing was opened
             [ret |-> Raised, out |-> f.out, events |-> f.events]
        ELSE LET h == TFileGet(f, histName)
                 branch == IF h.h # None
                           THEN SetDirectory(PrintLine(h, FoundMsg(histName)), NoDir)
                           ELSE PrintLine(h, NotFoundMsg(histName))
             IN  Returned(TFileClose(branch))

(***************************************************************************)
(* utils.py: trimSpaceColNames.  A column name is a sequence of            *)
(* characters.  RDataFrame's Alias raises when the alias is not a valid    *)
(* C++ variable name or names a column or alias the frame already has.     *)
(***************************************************************************)
Chars == {" ", "a", "b"}
IsSpace(ch) == ch = " "

RECURSIVE lstrip(_)
lstrip(s) == IF s # <<>> /\ IsSpace(s[1]) THEN lstrip(Tail(s)) ELSE s

RECURSIVE rstrip(_)
rstrip(s) == IF s # <<>> /\ IsSpace(Last(s)) THEN rstrip(Front(s)) ELSE s

strip(s) == rstrip(lstrip(s))

ValidCppVarName(s) == s # <<>> /\ \A i \in 1..Len(s) : ~IsSpace(s[i])

DataFrame(cols) == [kind |-> "df", cols |-> cols, aliases |-> {}]

ColumnSet(df) == {df.cols[i] : i \in 1..Len(df.cols)}
AliasNames(df) == {a[1] : a \in df.aliases}

Alias(df, alias, columnName) ==
    IF ~ValidCppVarName(alias) \/ alias \in ColumnSet(df) \cup AliasNames(df)
    THEN Raised
    ELSE [df EXCEPT !.aliases = @ \cup {<<alias, columnName>>}]

\* The loop over the columns cs still to visit; an exception ends it.
RECURSIVE trimLoop_SwapArgs(_, _)
trimLoop_SwapArgs(df, cs) ==
    IF cs = <<>> \/ df = Raised THEN df
    ELSE LET c == Head(cs)
             cNoSpace == strip(c)
         IN  trimLoop_SwapArgs(IF cNoSpace # c THEN Alias(df, c, cNoSpace) ELSE df,
                               Tail(cs))

RECURSIVE trimLoop(_, _)
trimLoop(df, cs) ==
    IF cs = <<>> \/ df = Raised THEN df
    ELSE LET c == Head(cs)
             cNoSpace == strip(c)
         IN  trimLoop(IF cNoSpace # c THEN Alias(df, cNoSpace, c) ELSE df, Tail(cs))

trimSpaceColNames(df) == trimLoop(df, df.cols)

(***************************************************************************)
(* Inputs.                                                                 *)
(***************************************************************************)
\* ConvertPhsp.py's literals (px, py, pz, pE), as float.hex prints them:
\* -0x1.cef5b72107c34p-3, 0x1.7b7b2049b8d8ap-2, -0x1.8015e498f80d0p-5, 0x1.516f5d0835994p-1
kAmpGen_GeV ==
    <<Dbl(1, <<12,14,15,5,11,7,2,1,0,7,12,3,4>>, -3),
      Dbl(0, <<7,11,7,11,2,0,4,9,11,8,13,8,10>>, -2),
      Dbl(1, <<8,0,1,5,14,4,9,8,15,8,0,13,0>>, -5),
      Dbl(0, <<5,1,6,15,5,13,0,8,3,5,9,9,4>>, -1)>>
\* 0x1.34d3e9d8513ddp-4, 0x1.f522e233b0b3fp-3, 0x1.ad1c593d6de41p-3, 0x1.6fb3eecc9ece7p-2
osPi1AmpGen_GeV ==
    <<Dbl(0, <<3,4,13,3,14,9,13,8,5,1,3,13,13>>, -4),
      Dbl(0, <<15,5,2,2,14,2,3,3,11,0,11,3,15>>, -3),
      Dbl(0, <<10,13,1,12,5,9,3,13,6,13,14,4,1>>, -3),
      Dbl(0, <<6,15,11,3,14,14,12,12,9,14,12,14,7>>, -2)>>
\* 0x1.2d6b3dc6295c3p-4, -0x1.efc9ed0983138p-3, -0x1.34e4cb6a507a2p-2, 0x1.abc0655486c2ap-2
osPi2AmpGen_GeV ==
    <<Dbl(0, <<2,13,6,11,3,13,12,6,2,9,5,12,3>>, -4),
      Dbl(1, <<14,15,12,9,14,13,0,9,8,3,1,3,8>>, -3),
      Dbl(1, <<3,4,14,4,12,11,6,10,5,0,7,10,2>>, -2),
      Dbl(0, <<10,11,12,0,6,5,5,4,8,6,12,2,10>>, -2)>>
\* 0x1.3bac46a394ecap-4, -0x1.7e279adecfa8ep-2, 0x1.1cb2b6bd7113bp-3, 0x1.b7458fbf866b4p-2
ssPiAmpGen_GeV ==
    <<Dbl(0, <<3,11,10,12,4,6,10,3,9,4,14,12,10>>, -4),
      Dbl(1, <<7,14,2,7,9,10,13,14,12,15,10,8,14>>, -2),
      Dbl(0, <<1,12,11,2,11,6,11,13,7,1,1,3,11>>, -3),
      Dbl(0, <<11,7,4,5,8,15,11,15,8,6,6,11,4>>, -2)>>
\* 0x1.8e65bea0ba1f5p-2, -0x1.1edf1e0828c37p-3, -0x1.1f0d413122b7cp-3, 0x1.516f6512a94ffp-1
testK ==
    <<Dbl(0, <<8,14,6,5,11,14,10,0,11,10,1,15,5>>, -2),
      Dbl(1, <<1,14,13,15,1,14,0,8,2,8,12,3,7>>, -3),
      Dbl(1, <<1,15,0,13,4,1,3,1,2,2,11,7,12>>, -3),
      Dbl(0, <<5,1,6,15,6,5,1,2,10,9,4,15,15>>, -1)>>
\* 0x1.0f4dbdf8f4730p-2, 0x1.1edf1e0828c37p-3, 0x1.1f0d413122b7cp-3, 0x1.6fb3fa6defc7ap-2
testOSPi1 ==
    <<Dbl(0, <<0,15,4,13,11,13,15,8,15,4,7,3,0>>, -2),
      Dbl(0, <<1,14,13,15,1,14,0,8,2,8,12,3,7>>, -3),
      Dbl(0, <<1,15,0,13,4,1,3,1,2,2,11,7,12>>, -3),
      Dbl(0, <<6,15,11,3,15,10,6,13,14,15,12,7,10>>, -2)>>
\* -0x1.4764adff822bcp-2, -0x1.d691a75cd0bb7p-3, 0x0.0p+0, 0x1.abc05d52c16dfp-2
testOSPi2 ==
    <<Dbl(1, <<4,7,6,4,10,13,15,15,8,2,2,11,12>>, -2),
      Dbl(1, <<13,6,9,1,10,7,5,12,13,0,11,11,7>>, -3),
      FZero,
      Dbl(0, <<10,11,12,0,5,13,5,2,12,1,6,13,15>>, -2)>>
\* -0x1.564ece9a2c669p-2, 0x1.d691a75cd0bb7p-3, 0x0.0p+0, 0x1.b7457c0b13598p-2
testSSPi ==
    <<Dbl(1, <<5,6,4,14,12,14,9,10,2,12,6,6,9>>, -2),
      Dbl(0, <<13,6,9,1,10,7,5,12,13,0,11,11,7>>, -3),
      FZero,
      Dbl(0, <<11,7,4,5,7,12,0,11,1,3,5,9,8>>, -2)>>
\* D0_M_MEV = 1864.84 = 0x1.d235c28f5c28fp+10
D0_M_MEV == Dbl(0, <<13,2,3,5,12,2,8,15,5,12,2,8,15>>, 10)

ScriptVectors == {kAmpGen_GeV, osPi1AmpGen_GeV, osPi2AmpGen_GeV, ssPiAmpGen_GeV,
                  testK, testOSPi1, testOSPi2, testSSPi}

\* Further components an analysis script may pass:
\* 0.0, 0.00071 = 0x1.743e963dc486bp-11,
\* -0.9758385726397046 = -0x1.f3a11d0753615p-1, 1.5 = 0x1.8p+0
OtherComponents ==
    {FZero,
     Dbl(0, <<7,4,3,14,9,6,3,13,12,4,8,6,11>>, -11),
     Dbl(1, <<15,3,10,1,1,13,0,7,5,3,6,1,5>>, -1),
     Dbl(0, <<8,0,0,0,0,0,0,0,0,0,0,0,0>>, 0)}

AmpGenInputs ==
    ScriptVectors \cup
    {<<a, b, c, d>> : a \in OtherComponents, b \in OtherComponents,
                      c \in OtherComponents, d \in OtherComponents}

RECURSIVE NamesOfLen(_)
NamesOfLen(n) ==
    IF n = 0 THEN {<<>>}
    ELSE {Append(s, ch) : s \in NamesOfLen(n - 1), ch \in Chars}

ColNames == UNION {NamesOfLen(n) : n \in 1..MaxNameLen}

RECURSIVE ColLists(_)
ColLists(n) ==
    IF n = 0 THEN {<<>>}
    ELSE LET shorter == ColLists(n - 1)
         IN  shorter \cup
             {Append(cs, c) : cs \in {x \in shorter : Len(x) = n - 1},
                              c \in ColNames}

\* Data frames: up to MaxCols columns with distinct names, no aliases yet.
DataFrames ==
    {DataFrame(cs) : cs \in {x \in ColLists(MaxCols) :
                                \A i, j \in 1..Len(x) : i # j => x[i] # x[j]}}

(***************************************************************************)
(* State.                                                                  *)
(***************************************************************************)
NoCall == [fn |-> "", args |-> <<>>]
NoEnv == <<>>

Init ==
    /\ disk \in SUBSET NativeFiles
    /\ rt = RtInit
    /\ events = <<>>
    /\ call = NoCall
    /\ ret = None
    /\ out = <<>>
    /\ pc = "start"
    /\ env = NoEnv

(***************************************************************************)
(* Spec: an analysis script calls the utilities one after the other.       *)
(***************************************************************************)
Str(s) == [kind |-> "str", val |-> s]

Call_getAmpGenKName ==
    /\ call = NoCall
    /\ \E IS_D0 \in BOOLEAN, IS_RS \in BOOLEAN :
          /\ call' = [fn |-> "getAmpGenKName", args |-> <<IS_D0, IS_RS>>]
          /\ ret' = Str(getAmpGenKName(IS_D0, IS_RS))
    /\ UNCHANGED <<disk, rt, events, out, pc, env>>

Call_getAmpGenOSPiName ==
    /\ call = NoCall
    /\ \E IS_D0 \in BOOLEAN, IS_RS \in BOOLEAN :
          /\ call' = [fn |-> "getAmpGenOSPiName", args |-> <<IS_D0, IS_RS>>]
          /\ ret' = Str(getAmpGenOSPiName(IS_D0, IS_RS))
    /\ UNCHANGED <<disk, rt, events, out, pc, env>>

Call_getAmpGenSSPiName ==
    /\ call = NoCall
    /\ \E IS_D0 \in BOOLEAN, IS_RS \in BOOLEAN :
          /\ call' = [fn |-> "getAmpGenSSPiName", args |-> <<IS_D0, IS_RS>>]
          /\ ret' = Str(getAmpGenSSPiName(IS_D0, IS_RS))
    /\ UNCHANGED <<disk, rt, events, out, pc, env>>

Call_loadK3PiCUtils ==
    /\ call = NoCall
    /\ \E buildDir \in {UTILS_BUILD_DIR, UTILS_INC_DIR},
          incDir \in {UTILS_BUILD_DIR, UTILS_INC_DIR} :
          LET w == loadK3PiCUtils([rt |-> rt, events |-> events], buildDir, incDir)
          IN  /\ call' = [fn |-> "loadK3PiCUtils", args |-> <<buildDir, incDir>>]
              /\ rt' = w.rt
              /\ events' = w.events
              /\ ret' = None
    /\ UNCHANGED <<disk, out, pc, env>>

\* Without the header and the library the lookup of ROOT.K3PiStudies raises.
Call_ampGentoTLorentzVector ==
    /\ call = NoCall
    /\ \E v \in AmpGenInputs :
          /\ call' = [fn |-> "ampGentoTLorentzVector", args |-> <<v>>]
          /\ IF NativeUsable(rt)
             THEN /\ ret' = [kind |-> "vec", val |-> ampGentoTLorentzVector(v)]
                  /\ events' = Append(events, Native("toTLorentzVector"))
             ELSE /\ ret' = Raised
                  /\ events' = events
    /\ UNCHANGED <<disk, rt, out, pc, env>>

Call_loadHistFromFile ==
    /\ call = NoCall
    /\ \E file \in FileArgs, histName \in HistArgs :
          LET r == loadHistFromFile(file, histName)
          IN  /\ call' = [fn |-> "loadHistFromFile", args |-> <<file, histName>>]
              /\ ret' = r.ret
              /\ out' = out \o r.out
              /\ events' = events \o r.events
    /\ UNCHANGED <<disk, rt, pc, env>>

Call_trimSpaceColNames ==
    /\ call = NoCall
    /\ \E df \in DataFrames :
          /\ call' = [fn |-> "trimSpaceColNames", args |-> <<df>>]
          /\ ret' = trimSpaceColNames(df)
    /\ UNCHANGED <<disk, rt, events, out, pc, env>>

\* The caller takes the result and goes on.
Return ==
    /\ call # NoCall
    /\ call' = NoCall
    /\ ret' = None
    /\ out' = <<>>
    /\ events' = <<>>
    /\ UNCHANGED <<disk, rt, pc, env>>

Next ==
    \/ Call_getAmpGenKName
    \/ Call_getAmpGenOSPiName
    \/ Call_getAmpGenSSPiName
    \/ Call_loadK3PiCUtils
    \/ Call_ampGentoTLorentzVector
    \/ Call_loadHistFromFile
    \/ Call_trimSpaceColNames
    \/ Return

Spec == Init /\ [][Next]_vars

(***************************************************************************)
(* SpecScript: one run of ConvertPhsp.main.                                *)
(***************************************************************************)
Line(text, value) == [text |-> text, value |-> value]

\* line 17
Main_load(w) == loadK3PiCUtils(w, UTILS_BUILD_DIR, UTILS_INC_DIR)

Main_loadK3PiCUtils ==
    /\ pc = "start"
    /\ LET w == Main_load([rt |-> rt, events |-> events])
       IN  /\ rt' = w.rt
           /\ events' = w.events
    /\ pc' = "convert"
    /\ UNCHANGED <<disk, call, ret, out, env>>

\* The first use of ROOT.K3PiStudies raises when the header or the library
\* was not found; nothing catches it.
Main_raise ==
    /\ pc = "convert"
    /\ ~NativeUsable(rt)
    /\ pc' = "raised"
    /\ UNCHANGED <<disk, rt, events, call, ret, out, env>>

FiveVectors == <<Native("toTLorentzVector"), Native("toTLorentzVector"),
                 Native("toTLorentzVector"), Native("toTLorentzVector"),
                 Native("toTLorentzVector")>>

\* lines 20-30
Main_convert ==
    /\ pc = "convert"
    /\ NativeUsable(rt)
    /\ env' = env @@ [k |-> ampGentoTLorentzVector(kAmpGen_GeV),
                      osPi1 |-> ampGentoTLorentzVector(osPi1AmpGen_GeV),
                      osPi2 |-> ampGentoTLorentzVector(osPi2AmpGen_GeV),
                      ssPi |-> ampGentoTLorentzVector(ssPiAmpGen_GeV),
                      d0 |-> toTLorentzVector(D0_M_MEV, FZero, FZero, FZero)]
    /\ events' = events \o FiveVectors
    /\ pc' = "calc_phsp"
    /\ UNCHANGED <<disk, rt, call, ret, out>>

phspArgs_PionsFirst(e) == <<e.d0, e.osPi1, e.ssPi, e.k, e.osPi2>>

\* line 33: the arguments of calc_phsp
phspArgs(e) == <<e.d0, e.k, e.osPi1, e.ssPi, e.osPi2>>

\* lines 33-38
Main_calc_phsp ==
    /\ pc = "calc_phsp"
    /\ LET a == phspArgs(env)
       IN  \E phsp \in calc_phsp(a[1], a[2], a[3], a[4], a[5]) :
              env' = env @@ [phsp |-> phsp]
    /\ events' = Append(events, Native("calc_phsp"))
    /\ pc' = "canon"
    /\ UNCHANGED <<disk, rt, call, ret, out>>

canonArg_Unchanged(phi) == phi

\* line 39
canonArg(phi) == changeAngleRange_neg_pi_to_pi(phi)

\* lines 39-41
Main_canon ==
    /\ pc = "canon"
    /\ LET phi_rad_neg_pi_to_pi == canonArg(env.phsp[5])
       IN  /\ env' = env @@ [phi_rad_neg_pi_to_pi |-> phi_rad_neg_pi_to_pi]
           /\ out' = out \o
                <<Line("PhspPoint4Body testPoint [GeV] [rad -pi to pi]= { {}, {}, {}, {}, {} };",
                       <<PerThousand(env.phsp[1]), PerThousand(env.phsp[2]),
                         env.phsp[3], env.phsp[4], phi_rad_neg_pi_to_pi>>),
                  Line("phi, 0 to 2pi = {}", env.phsp[5])>>
    /\ events' = Append(events, Native("changeAngleRange_neg_pi_to_pi"))
    /\ pc' = "crosscheck"
    /\ UNCHANGED <<disk, rt, call, ret>>

crossCheck_M13Twice(e) ==
    <<Line("PhspPoint4Body testPoint M12 = {}", PerThousand(M(VecSum(e.k, e.osPi1)))),
      Line("PhspPoint4Body testPoint M13 = {}", PerThousand(M(VecSum(e.k, e.osPi2)))),
      Line("PhspPoint4Body testPoint M14 = {}", PerThousand(M(VecSum(e.k, e.osPi2)))),
      Line("PhspPoint4Body testPoint M23 = {}", PerThousand(M(VecSum(e.osPi1, e.osPi2)))),
      Line("PhspPoint4Body testPoint M24 = {}", PerThousand(M(VecSum(e.osPi1, e.ssPi)))),
      Line("PhspPoint4Body testPoint M34 = {}", PerThousand(M(VecSum(e.osPi2, e.ssPi))))>>

\* lines 43-48
crossCheck(e) ==
    <<Line("PhspPoint4Body testPoint M12 = {}", PerThousand(M(VecSum(e.k, e.osPi1)))),
      Line("PhspPoint4Body testPoint M13 = {}", PerThousand(M(VecSum(e.k, e.osPi2)))),
      Line("PhspPoint4Body testPoint M14 = {}", PerThousand(M(VecSum(e.k, e.ssPi)))),
      Line("PhspPoint4Body testPoint M23 = {}", PerThousand(M(VecSum(e.osPi1, e.osPi2)))),
      Line("PhspPoint4Body testPoint M24 = {}", PerThousand(M(VecSum(e.osPi1, e.ssPi)))),
      Line("PhspPoint4Body testPoint M34 = {}", PerThousand(M(VecSum(e.osPi2, e.ssPi))))>>

Main_crosscheck ==
    /\ pc = "crosscheck"
    /\ out' = out \o crossCheck(env)
    /\ pc' = "convertTest"
    /\ UNCHANGED <<disk, rt, events, call, ret, env>>

\* lines 93-100
Main_convertTest ==
    /\ pc = "convertTest"
    /\ env' = env @@ [testKVec |-> ampGentoTLorentzVector(testK),
                      testOSPi1Vec |-> ampGentoTLorentzVector(testOSPi1),
                      testOSPi2Vec |-> ampGentoTLorentzVector(testOSPi2),
                      testSSPiVec |-> ampGentoTLorentzVector(testSSPi)]
    /\ events' = events \o SubSeq(FiveVectors, 1, 4)
    /\ pc' = "crosscheckTest"
    /\ UNCHANGED <<disk, rt, call, ret, out>>

\* lines 101-106
crossCheckTest(e) ==
    <<Line("From GooFit M12 = {}", PerThousand(M(VecSum(e.testKVec, e.testOSPi1Vec)))),
      Line("From GooFit M13 = {}", PerThousand(M(VecSum(e.testKVec, e.testOSPi2Vec)))),
      Line("From GooFit M14 = {}", PerThousand(M(VecSum(e.testKVec, e.testSSPiVec)))),
      Line("From GooFit M23 = {}", PerThousand(M(VecSum(e.testOSPi1Vec, e.testOSPi2Vec)))),
      Line("From GooFit M24 = {}", PerThousand(M(VecSum(e.testOSPi1Vec, e.testSSPiVec)))),
      Line("From GooFit M34 = {}", PerThousand(M(VecSum(e.testOSPi2Vec, e.testSSPiVec))))>>

Main_crosscheckTest ==
    /\ pc = "crosscheckTest"
    /\ out' = out \o crossCheckTest(env)
    /\ pc' = "calc_phspTest"
    /\ UNCHANGED <<disk, rt, events, call, ret, env>>

\* line 107: the arguments of calc_phsp
phspTestArgs(e) == <<e.d0, e.testKVec, e.testOSPi1Vec, e.testSSPiVec, e.testOSPi2Vec>>

\* lines 107-112
Main_calc_phspTest ==
    /\ pc = "calc_phspTest"
    /\ LET a == phspTestArgs(env)
       IN  \E phspTest \in calc_phsp(a[1], a[2], a[3], a[4], a[5]) :
              env' = env @@ [phspTest |-> phspTest]
    /\ events' = Append(events, Native("calc_phsp"))
    /\ pc' = "canonTest"
    /\ UNCHANGED <<disk, rt, call, ret, out>>

\* line 113
canonTestArg(phi) == changeAngleRange_neg_pi_to_pi(phi)

\* lines 113-114
Main_canonTest ==
    /\ pc = "canonTest"
    /\ LET phi_rad_neg_pi_to_piTest == canonTestArg(env.phspTest[5])
       IN  /\ env' = env @@ [phi_rad_neg_pi_to_piTest |-> phi_rad_neg_pi_to_piTest]
           /\ out' = Append(out,
                Line("GooFit computed testPoint [GeV] [rad -pi to pi]= { {}, {}, {}, {}, {} }",
                     <<PerThousand(env.phspTest[1]), PerThousand(env.phspTest[2]),
                       env.phspTest[3], env.phspTest[4], phi_rad_neg_pi_to_piTest>>))
    /\ events' = Append(events, Native("changeAngleRange_neg_pi_to_pi"))
    /\ pc' = "done"
    /\ UNCHANGED <<disk, rt, call, ret>>

NextScript ==
    \/ Main_loadK3PiCUtils
    \/ Main_raise
    \/ Main_convert
    \/ Main_calc_phsp
    \/ Main_canon
    \/ Main_crosscheck
    \/ Main_convertTest
    \/ Main_crosscheckTest
    \/ Main_calc_phspTest
    \/ Main_canonTest

SpecScript == Init /\ [][NextScript]_vars

(***************************************************************************)
(* Properties.                                                             *)
(***************************************************************************)
Converted == call.fn = "ampGentoTLorentzVector" /\ ret.kind = "vec"

\* C1: for every input (px, py, pz, E) ampGentoTLorentzVector builds the
\* four-momentum (E, px, py, pz), each component being the input's component
\* times the one GeV-to-MeV constant: E from input[3], px from input[0], py
\* from input[1], pz from input[2].
C1_OrderAndUnits ==
    Converted =>
        LET v == call.args[1]
        IN  /\ ret.val.E = FMul(v[4], GEV_TO_MEV)
            /\ ret.val.Px = FMul(v[1], GEV_TO_MEV)
            /\ ret.val.Py = FMul(v[2], GEV_TO_MEV)
            /\ ret.val.Pz = FMul(v[3], GEV_TO_MEV)
            /\ DOMAIN ret.val = {"E", "Px", "Py", "Pz"}

\* The script's kaon converted: 659.0527603646473, -226.05460233259723,
\* 370.5868763920185, -46.885439376411874 MeV, as Python computes them.
C1_Witness ==
    /\ Converted
    /\ call.args[1] = kAmpGen_GeV
    /\ ret.val = [E |-> Dbl(0, <<4,9,8,6,12,0,13,10,0,4,5,7,11>>, 9),
                  Px |-> Dbl(1, <<12,4,1,11,15,4,13,6,4,1,9,4,11>>, 7),
                  Py |-> Dbl(0, <<7,2,9,6,3,13,8,7,15,14,8,3,9>>, 8),
                  Pz |-> Dbl(1, <<7,7,1,5,6,1,3,13,6,2,3,12,11>>, 5)]

\* Quotient (as many digits as the dividend) and remainder of ds / c, base 16.
RECURSIVE DivSmall(_, _)
DivSmall(ds, c) ==
    IF ds = <<>> THEN [q |-> <<>>, r |-> 0]
    ELSE LET prev == DivSmall(Front(ds), c)
             t == 16 * prev.r + Last(ds)
         IN  [q |-> Append(prev.q, t \div c), r |-> t % c]

\* Python's  x / c  for a float x and the double c = 1.0, 2.0, 3.0, ...  The
\* quotient is taken to 12 bits more than the significand has (three hex
\* digits) with one more bit telling whether anything was left over.
FDiv(x, c) ==
    IF x.hex = <<>> THEN FZero
    ELSE LET d == DivSmall(Significand(x) \o <<0, 0, 0>>, c)
         IN  RoundNearestEven(x.sign,
                              Append(DigitsToBits(d.q), IF d.r = 0 THEN 0 ELSE 1),
                              x.exp - (Precision - 1) - 12 - 1)

\* The way back: divide by the constant and restore the order px, py, pz, E.
toAmpGen(vec) ==
    <<FDiv(vec.Px, GEV_TO_MEV), FDiv(vec.Py, GEV_TO_MEV),
      FDiv(vec.Pz, GEV_TO_MEV), FDiv(vec.E, GEV_TO_MEV)>>

\* The double next to x, away from zero.
NextUp(x) ==
    LET b == IncBits(DigitsToBits(x.hex))
    IN  IF Len(b) > Len(DigitsToBits(x.hex))
        THEN Dbl(x.sign, BitsToDigits(Tail(b)), x.exp + 1)
        ELSE Dbl(x.sign, BitsToDigits(b), x.exp)

WithinOneUlp(x, y) ==
    \/ x = y
    \/ x # FZero /\ y # FZero /\ (NextUp(x) = y \/ NextUp(y) = x)

\* C6 as stated: converting to the target unit and order and back recovers
\* the original four values.
C6_RoundTripExact ==
    Converted => toAmpGen(ret.val) = call.args[1]

\* C6 as amended: converting and converting back restores the order and
\* recovers each of the four values to within one unit in the last place.
C6_RoundTripWithinOneUlp ==
    Converted =>
        \A i \in 1..4 : WithinOneUlp(toAmpGen(ret.val)[i], call.args[1][i])

\* 0.00071 * 1000.0 / 1000.0 is 0.0007099999999999999.
C6_Witness ==
    /\ Converted
    /\ call.args[1][1] = Dbl(0, <<7,4,3,14,9,6,3,13,12,4,8,6,11>>, -11)
    /\ toAmpGen(ret.val)[1] = Dbl(0, <<7,4,3,14,9,6,3,13,12,4,8,6,10>>, -11)
    /\ toAmpGen(ret.val)[4] = call.args[1][4]

Marker(name) == IF name \in {"K#", "pi#"} THEN "#" ELSE "~"

\* C9: the naming helpers depend only on whether IS_D0 equals IS_RS: equal
\* flags give "K#", "pi#" (same sign) and "pi~" (opposite sign), unequal flags
\* give "K~", "pi~" and "pi#"; so the same-sign pion carries the kaon's marker
\* and the opposite-sign pion the other one.
C9_NamesFollowFlagEquality ==
    call.fn \in {"getAmpGenKName", "getAmpGenOSPiName", "getAmpGenSSPiName"} =>
        LET same == call.args[1] = call.args[2]
            d == call.args[1]
            r == call.args[2]
        IN  /\ call.fn = "getAmpGenKName" => ret.val = IF same THEN "K#" ELSE "K~"
            /\ call.fn = "getAmpGenSSPiName" => ret.val = IF same THEN "pi#" ELSE "pi~"
            /\ call.fn = "getAmpGenOSPiName" => ret.val = IF same THEN "pi~" ELSE "pi#"
            /\ Marker(getAmpGenSSPiName(d, r)) = Marker(getAmpGenKName(d, r))
            /\ Marker(getAmpGenOSPiName(d, r)) # Marker(getAmpGenKName(d, r))

C9_Witness ==
    /\ call = [fn |-> "getAmpGenSSPiName", args |-> <<FALSE, FALSE>>]
    /\ ret.val = "pi#"

HistCall == call.fn = "loadHistFromFile"
Opened == HistCall /\ call.args[1] \in DOMAIN RootFiles
Present == Opened /\ call.args[2] \in RootFiles[call.args[1]]

\* C4: on an opened file, loadHistFromFile prints the not-found line and
\* returns None without raising when the histogram is absent, and prints the
\* found line and returns the histogram when it is present.
C4_FoundOrNotFound ==
    Opened =>
        IF Present
        THEN /\ out = <<FoundMsg(call.args[2])>>
             /\ ret.kind = "hist"
             /\ ret.name = call.args[2]
        ELSE /\ out = <<NotFoundMsg(call.args[2])>>
             /\ ret = None

C4_Witness ==
    /\ call = [fn |-> "loadHistFromFile", args |-> <<"hists.root", "hC">>]
    /\ ret = None
    /\ out = <<NotFoundMsg("hC")>>

EventsAt(op) == {i \in 1..Len(events) : events[i].op = op}

\* C8: a histogram that is found is detached (SetDirectory(0)) before its
\* file is closed, so what is returned is not owned by a closed file and was
\* not deleted with it; and the file the call opened is closed exactly once,
\* as the last thing before the return, found or not.
C8_DetachThenCloseOnce ==
    Opened =>
        /\ Cardinality(EventsAt("Close")) = 1
        /\ events[Len(events)] = [op |-> "Close", arg |-> call.args[1]]
        /\ Cardinality(EventsAt("Open")) = 1
        /\ Present =>
              /\ \E i \in EventsAt("SetDirectory") :
                    /\ events[i].arg = NoDir
                    /\ \A j \in EventsAt("Close") : i < j
              /\ ret.dir = NoDir
              /\ ~ret.deleted
        /\ ~Present => EventsAt("SetDirectory") = {}

C8_Witness ==
    /\ call = [fn |-> "loadHistFromFile", args |-> <<"hists.root", "hA">>]
    /\ ret = [kind |-> "hist", name |-> "hA", dir |-> NoDir, deleted |-> FALSE]
    /\ Len(events) = 4

TrimCall == call.fn = "trimSpaceColNames"
Untrimmed(df) == {c \in ColumnSet(df) : strip(c) # c}
TrimmedAliases(df) == {<<strip(c), c>> : c \in Untrimmed(df)}

\* C10 as stated: an alias is added exactly for the columns whose name has
\* leading or trailing whitespace, the stripped name aliasing the original
\* column, and the original columns stay as they were.
C10_AliasIffWhitespace ==
    TrimCall =>
        /\ ret.kind = "df"
        /\ ret.cols = call.args[1].cols
        /\ ret.aliases = TrimmedAliases(call.args[1])

\* Some stripped name cannot be used as an alias.
Clash(df) ==
    \E c \in Untrimmed(df) :
        \/ ~ValidCppVarName(strip(c))
        \/ strip(c) \in ColumnSet(df)
        \/ \E c2 \in Untrimmed(df) : c2 # c /\ strip(c2) = strip(c)

\* C10 as amended: when every stripped name is a valid column name that
\* differs from every column name of the frame and from every other stripped
\* name, aliases are added as stated; otherwise Alias raises and no data
\* frame is returned.
C10_AliasIffWhitespaceUnlessClash ==
    TrimCall =>
        IF Clash(call.args[1])
        THEN ret = Raised
        ELSE /\ ret.kind = "df"
             /\ ret.cols = call.args[1].cols
             /\ ret.aliases = TrimmedAliases(call.args[1])

C10_Witness ==
    /\ TrimCall
    /\ call.args[1].cols = << <<" ", "a">>, <<"b">> >>
    /\ ret = [kind |-> "df", cols |-> << <<" ", "a">>, <<"b">> >>,
              aliases |-> {<< <<"a">>, <<" ", "a">> >>}]

Has(name) == name \in DOMAIN env
Printed(text) == {i \in 1..Len(out) : out[i].text = text}

Pairs(S) == {{a, b} : a \in S, b \in S} \ {{a} : a \in S}
SumLines(prefix) ==
    SelectSeq(out, LAMBDA l : l.text \in {prefix[1], prefix[2], prefix[3],
                                           prefix[4], prefix[5], prefix[6]})
SummedPairs(lines) == {lines[i].value.num.mass.sum : i \in 1..Len(lines)}

Labels == <<"PhspPoint4Body testPoint M12 = {}", "PhspPoint4Body testPoint M13 = {}",
            "PhspPoint4Body testPoint M14 = {}", "PhspPoint4Body testPoint M23 = {}",
            "PhspPoint4Body testPoint M24 = {}", "PhspPoint4Body testPoint M34 = {}">>
TestLabels == <<"From GooFit M12 = {}", "From GooFit M13 = {}", "From GooFit M14 = {}",
                "From GooFit M23 = {}", "From GooFit M24 = {}", "From GooFit M34 = {}">>

AfterCrosscheck == pc \in {"convertTest", "crosscheckTest", "calc_phspTest", "canonTest", "done"}
AfterCrosscheckTest == pc \in {"calc_phspTest", "canonTest", "done"}

\* C3: for each set of literals the script prints the mass of the sum of
\* every unordered pair of the four daughters: six lines, the six pairs, each
\* once.
C3_EveryPairOnce ==
    /\ AfterCrosscheck =>
          LET daughters == {env.k, env.osPi1, env.osPi2, env.ssPi}
              lines == SumLines(Labels)
          IN  /\ Cardinality(daughters) = 4
              /\ Len(lines) = 6
              /\ SummedPairs(lines) = Pairs(daughters)
    /\ AfterCrosscheckTest =>
          LET daughters == {env.testKVec, env.testOSPi1Vec, env.testOSPi2Vec, env.testSSPiVec}
              lines == SumLines(TestLabels)
          IN  /\ Cardinality(daughters) = 4
              /\ Len(lines) = 6
              /\ SummedPairs(lines) = Pairs(daughters)

C3_Witness ==
    /\ pc = "done"
    /\ Cardinality(SummedPairs(SumLines(Labels))) = 6
    /\ Cardinality(SummedPairs(SumLines(TestLabels))) = 6

Canonical(theta, c) ==
    /\ c > -AngleSteps /\ c <= AngleSteps
    /\ (c - theta) % (2 * AngleSteps) = 0
    /\ changeAngleRange_neg_pi_to_pi(c) = c

C7_LoadOnceBeforeUse ==
    /\ [](/\ Cardinality(EventsAt("ProcessLine")) = IF pc = "start" THEN 0 ELSE 1
          /\ Cardinality(EventsAt("Load")) = IF pc = "start" THEN 0 ELSE 1
          /\ \A l \in EventsAt("Load") :
                /\ events[l].arg = LibPath(UTILS_BUILD_DIR)
                /\ \E i \in EventsAt("ProcessLine") :
                      i < l /\ events[i].arg = HeaderPath(UTILS_INC_DIR)
          /\ \A n \in EventsAt("native") :
                /\ \E l \in EventsAt("Load") : l < n
                /\ NativeUsable(rt)
          /\ \A i \in 1..Len(events) : events[i].op \in {"ProcessLine", "Load", "native"})
    /\ [][(rt.included => rt.included') /\ (rt.loaded => rt.loaded')]_vars

C7_Witness ==
    /\ pc = "done"
    /\ Cardinality(EventsAt("native")) = 13
    /\ events[1].op = "ProcessLine"
    /\ events[2].op = "Load"
    /\ rt.loaded

=============================================================================
